---- MODULE Spec2Model ----
\* A model of iter-progress (src/src/lib.rs): ProgressRecorderIter wraps an
\* iterator and hands out, with every item, a ProgressRecord (items seen, time
\* since construction, the wrapped iterator's size_hint).
EXTENDS Integers, Sequences, FiniteSets, TLC

\* ------------------------------------------------------------------ bounds
MaxLen == 5          \* longest slice wrapped
MaxScript == 3       \* longest script of a hand-written iterator
MaxCalls == 5        \* calls of ProgressRecorderIter::next in one run
MaxClock == 4        \* largest wall-clock reading, in ticks
MaxPrintCalls == 2   \* calls of print_every / should_print_every_items in one run
MaxN == 3            \* largest period handed to should_print_every_items
TicksPerSec == 2     \* clock ticks in one second (a tick is 500 ms, as the test sleeps)

\* ------------------------------------------------------------------ values
\* Option<T>: None is the empty sequence, Some(x) the one-element sequence.
None == <<>>
Some(x) == <<x>>

\* usize: the integers modulo 2^USIZE_BITS. TLC's integers cannot hold the
\* upper half, so a usize u is held as u when u < 2^63 and as u - 2^64 when
\* u >= 2^63: usize::MAX is -1, usize::MAX - 1 is -2, and the wrapping sum
\* and difference of two usize are the sum and difference of what holds them.
USIZE_BITS == 64
USIZE_MAX == -1

\* a + b and a - b on usize leave the range (the build's overflow checks
\* panic on it, without them the result wraps).
UsizeAddOverflows(a, b) ==
    \/ a < 0 /\ b < 0
    \/ (a < 0 \/ b < 0) /\ a + b >= 0
UsizeSubOverflows(a, b) ==
    \/ a >= 0 /\ b < 0
    \/ (a >= 0) = (b >= 0) /\ a < b

\* a % n on usize for 0 < n < 2^15: 2^64 mod n by squaring 2^16 twice.
TwoToUsizeBitsMod(n) ==
    LET s16 == 65536 % n
        s32 == (s16 * s16) % n
    IN  (s32 * s32) % n
UsizeRem(a, n) ==
    IF a >= 0 THEN a % n ELSE (TwoToUsizeBitsMod(n) + (a % n)) % n

\* {} of a usize in format!: decimal; the top of the range is
\* 18446744073709551616 - k, for k up to 9551616.
UsizeToString(a) ==
    IF a >= 0 THEN ToString(a)
    ELSE LET low == 9551616 + a
             pad == CHOOSE z \in {"", "0", "00", "000", "0000", "00000", "000000"} :
                        Len(z) + Len(ToString(low)) = 7
         IN  "1844674407370" \o pad \o ToString(low)

Elems == {0, 1}
Msgs == {"tick", "tock"}

SeqsUpTo(S, n) == UNION {[1..k -> S] : k \in 0..n}

\* ------------------------------------------------------- wrapped iterators
\* The wrapped iterator I: Iterator. Three kinds are drawn:
\*   slice       vec.iter(): yields script[1..], exact size_hint, fused
\*   range_from  (0..) over i32: yields pos, pos+1, ...; size_hint
\*               (usize::MAX, None); the i32 runs out only after 2^31 pulls
\*   custom      a hand-written Iterator: script[i] is what its i-th next()
\*               returns (None allowed anywhere: Iterator does not promise
\*               fusing), None after the script; a constant size_hint
\* pulled counts the calls of next() the iterator has received.
CustomHints ==
    { <<0, None>>, <<0, Some(1)>>, <<1, Some(1)>> }

\* The size_hint of an iterator with exactly usize::MAX items left, which is
\* what (0..=usize::MAX) reports once its first item is taken.
WideHints ==
    { <<USIZE_MAX, Some(USIZE_MAX)>> }

Slices ==
    { [kind |-> "slice", script |-> s, pos |-> 0, hint |-> <<0, None>>, pulled |-> 0] :
        s \in SeqsUpTo(Elems, MaxLen) }

RangeFroms ==
    { [kind |-> "range_from", script |-> <<>>, pos |-> 0, hint |-> <<0, None>>, pulled |-> 0] }

\* Scripts that do not end in None (a trailing None is what follows the script
\* anyway). What matters in them is where the None are: the items are all 0,
\* the slices draw the items' values.
CustomScripts ==
    { s \in SeqsUpTo({None, Some(0)}, MaxScript) :
        Len(s) > 0 => s[Len(s)] # None }

Customs ==
    { [kind |-> "custom", script |-> s, pos |-> 0, hint |-> h, pulled |-> 0] :
        s \in CustomScripts, h \in CustomHints }

WideCustoms ==
    { [kind |-> "custom", script |-> s, pos |-> 0, hint |-> h, pulled |-> 0] :
        s \in CustomScripts, h \in WideHints }

Sources == Slices \cup RangeFroms \cup Customs

\* I::next: the item returned and the iterator afterwards.
IterNext(it) ==
    LET adv == [it EXCEPT !.pos = it.pos + 1, !.pulled = it.pulled + 1]
        stay == [it EXCEPT !.pulled = it.pulled + 1]
    IN  CASE it.kind = "slice" ->
                IF it.pos < Len(it.script)
                    THEN [item |-> Some(it.script[it.pos + 1]), iter |-> adv]
                    ELSE [item |-> None, iter |-> stay]
          [] it.kind = "range_from" ->
                [item |-> Some(it.pos), iter |-> adv]
          [] OTHER ->
                IF it.pos < Len(it.script)
                    THEN [item |-> it.script[it.pos + 1], iter |-> adv]
                    ELSE [item |-> None, iter |-> stay]

\* I::count: next() until its first None; the number of items before it and
\* the iterator afterwards. (0..) has no None: with overflow checks its next
\* panics when the i32 runs out, without them the i32 wraps and count goes
\* on for ever.
IterCountOutcome(it, overflow_checks) ==
    IF it.kind # "range_from" THEN "returns"
    ELSE IF overflow_checks THEN "panics" ELSE "diverges"

RECURSIVE IterCount(_)
IterCount(it) ==
    LET r == IterNext(it)
    IN  IF r.item = None
            THEN [n |-> 0, iter |-> r.iter]
            ELSE LET c == IterCount(r.iter)
                 IN  [n |-> c.n + 1, iter |-> c.iter]

\* I::size_hint: (lower bound, Option<upper bound>) of what remains.
IterSizeHint(it) ==
    CASE it.kind = "slice" ->
            <<Len(it.script) - it.pos, Some(Len(it.script) - it.pos)>>
      [] it.kind = "range_from" -> <<USIZE_MAX, None>>
      [] OTHER -> it.hint

\* ---------------------------------------------------------- ProgressRecord
\* A panic (the remainder by zero, a usize sum or difference out of range
\* with overflow checks) or a value.
Panic == [panic |-> TRUE, value |-> FALSE]
Ok(v) == [panic |-> FALSE, value |-> v]

num_done(rec) == rec.num

duration_since_start(rec) == rec.iterating_for

\* time::Duration::num_seconds: whole seconds, the fraction cut off toward zero.
num_seconds(d) ==
    IF d >= 0 THEN d \div TicksPerSec ELSE -((-d) \div TicksPerSec)

\* f32 (IEEE 754 binary32, round to nearest, ties to even). A finite non-zero
\* value is sign * m * 2^e with m of F32_MANTISSA_DIGITS bits, its top bit set.
\* The exponent's range (subnormals, overflow to infinity) is never met by the
\* values here and is left out.
F32_MANTISSA_DIGITS == 24

Pow2(k) == 2^k

MantissaMin == Pow2(F32_MANTISSA_DIGITS - 1)
MantissaLim == Pow2(F32_MANTISSA_DIGITS)

F32(sign, m, e) == [kind |-> "fin", sign |-> sign, m |-> m, e |-> e]
\* +0.0; -0.0 is the same with sign -1.
F32Zero == [kind |-> "zero", sign |-> 1, m |-> 0, e |-> 0]
Inf == [kind |-> "inf", sign |-> 1, m |-> 0, e |-> 0]
NaN == [kind |-> "nan", sign |-> 1, m |-> 0, e |-> 0]

\* p / 2^s rounded to the nearest integer, a tie to the even one.
RoundShift(p, s) ==
    IF s = 0 THEN p
    ELSE LET q == p \div Pow2(s)
             r == p % Pow2(s)
             half == Pow2(s - 1)
         IN  IF r > half \/ (r = half /\ q % 2 = 1) THEN q + 1 ELSE q

\* The f32 nearest to sign * p * 2^e, for an integer p > 0.
RECURSIVE F32Round(_, _, _)
F32Round(sign, p, e) ==
    IF p < MantissaMin THEN F32Round(sign, 2 * p, e - 1)
    ELSE IF p < MantissaLim THEN F32(sign, p, e)
    ELSE LET s == CHOOSE k \in 1..8 : p \div Pow2(k) < MantissaLim
                                     /\ p \div Pow2(k - 1) >= MantissaLim
             q == RoundShift(p, s)
         IN  IF q = MantissaLim THEN F32(sign, MantissaMin, e + s + 1)
                                ELSE F32(sign, q, e + s)

\* n as f32, for a signed integer n.
AsF32(n) ==
    IF n = 0 THEN F32Zero
    ELSE IF n > 0 THEN F32Round(1, n, 0) ELSE F32Round(-1, -n, 0)

\* a as f32, for a usize a: one of the top of the range, 2^64 - k with
\* k < 2^31, rounds to 2^64.
UsizeAsF32(a) ==
    IF a >= 0 THEN AsF32(a)
    ELSE F32(1, MantissaMin, USIZE_BITS - (F32_MANTISSA_DIGITS - 1))

\* Long division: steps more bits of the quotient q, remainder r, divisor b.
RECURSIVE LongDiv(_, _, _, _)
LongDiv(q, r, b, steps) ==
    IF steps = 0 THEN <<q, r>>
    ELSE IF 2 * r >= b THEN LongDiv(2 * q + 1, 2 * r - b, b, steps - 1)
                       ELSE LongDiv(2 * q, 2 * r, b, steps - 1)

\* x / y on f32: the sign is the product of the signs, also of a zero and of
\* an infinity; x / 0.0 is an infinity; 0.0 / 0.0 and inf / inf are NaN.
F32Div(x, y) ==
    IF x.kind = "nan" \/ y.kind = "nan" THEN NaN
    ELSE IF x.kind = "inf"
        THEN (IF y.kind = "inf" THEN NaN ELSE [Inf EXCEPT !.sign = x.sign * y.sign])
    ELSE IF y.kind = "inf" THEN [F32Zero EXCEPT !.sign = x.sign * y.sign]
    ELSE IF y.kind = "zero"
        THEN (IF x.kind = "zero" THEN NaN ELSE [Inf EXCEPT !.sign = x.sign * y.sign])
    ELSE IF x.kind = "zero" THEN [F32Zero EXCEPT !.sign = x.sign * y.sign]
    ELSE LET big == x.m >= y.m
             e == IF big THEN x.e - y.e ELSE x.e - y.e - 1
             r0 == IF big THEN x.m - y.m ELSE 2 * x.m - y.m
             d == LongDiv(1, r0, y.m, F32_MANTISSA_DIGITS - 1)
             q == d[1]
             r == d[2]
             up == 2 * r > y.m \/ (2 * r = y.m /\ q % 2 = 1)
             m == IF up THEN q + 1 ELSE q
             ex == e - (F32_MANTISSA_DIGITS - 1)
         IN  IF m = MantissaLim THEN F32(x.sign * y.sign, MantissaMin, ex + 1)
                                ELSE F32(x.sign * y.sign, m, ex)

\* m = c * 2^t with c odd.
RECURSIVE OddPart(_, _)
OddPart(m, t) == IF m % 2 = 1 THEN <<m, t>> ELSE OddPart(m \div 2, t + 1)

\* x * y on f32, for finite factors whose odd parts multiply to less than
\* 2^31 (y = 100.0 = 25 * 2^2 here); inf * 0.0 is NaN.
F32Mul(x, y) ==
    IF x.kind = "nan" \/ y.kind = "nan" THEN NaN
    ELSE IF x.kind = "inf" \/ y.kind = "inf"
        THEN (IF x.kind = "zero" \/ y.kind = "zero"
                THEN NaN ELSE [Inf EXCEPT !.sign = x.sign * y.sign])
    ELSE IF x.kind = "zero" \/ y.kind = "zero"
        THEN [F32Zero EXCEPT !.sign = x.sign * y.sign]
    ELSE LET a == OddPart(x.m, 0)
             b == OddPart(y.m, 0)
         IN  F32Round(x.sign * y.sign, a[1] * b[1], x.e + a[2] + y.e + b[2])

\* (a as f32) / (b as f32) for a usize a and a signed b, and f * 100.0,
\* worked out once for the integers the records of a run can hold.
TableMax == MaxCalls + MaxLen + 2
QuotientTable ==
    [a \in 0..TableMax, b \in -TableMax..TableMax |-> F32Div(AsF32(a), AsF32(b))]
DivAsF32(a, b) ==
    IF a \in 0..TableMax /\ b \in -TableMax..TableMax
        THEN QuotientTable[a, b]
        ELSE F32Div(UsizeAsF32(a), AsF32(b))

\* (a as f32) / (b as f32) for usize a and b.
UsizeDivAsF32(a, b) ==
    IF b >= 0 THEN DivAsF32(a, b) ELSE F32Div(UsizeAsF32(a), UsizeAsF32(b))

HundredTimesTable ==
    [f \in {QuotientTable[a, b] : a \in 1..TableMax, b \in 1..TableMax} |->
        F32Mul(f, AsF32(100))]
TimesHundred(f) ==
    IF f \in DOMAIN HundredTimesTable
        THEN HundredTimesTable[f]
        ELSE F32Mul(f, AsF32(100))

\* message: format!("Have seen {} items and been iterating for {}", ..)
message(rec) ==
    "Have seen " \o UsizeToString(num_done(rec)) \o " items and been iterating for "
        \o ToString(num_seconds(rec.iterating_for))

\* rate: (num_done() as f32) / (num_seconds() as f32)
rate_inf_as_zero(rec) ==
    LET secs == num_seconds(duration_since_start(rec))
    IN  IF secs = 0 THEN F32Zero ELSE DivAsF32(num_done(rec), secs)
rate(rec) ==
    DivAsF32(num_done(rec), num_seconds(duration_since_start(rec)))

is_size_known_any_upper(rec) == rec.size_hint[2] # None
is_size_known(rec) ==
    IF rec.size_hint[2] = None
        THEN FALSE
        ELSE rec.size_hint[1] = rec.size_hint[2][1]

\* fraction: remaining + done is a sum on usize. When it leaves the range
\* the call panics with overflow checks, and without them the sum wraps
\* (to 0 for usize::MAX + 1, which makes the quotient +infinity).
fraction(rec, overflow_checks) ==
    IF is_size_known(rec)
        THEN LET remaining == rec.size_hint[1]
                 done == num_done(rec)
             IN  IF overflow_checks /\ UsizeAddOverflows(remaining, done)
                    THEN Panic
                    ELSE Ok(Some(UsizeDivAsF32(done, remaining + done)))
        ELSE Ok(None)

percent(rec, overflow_checks) ==
    LET f == fraction(rec, overflow_checks)
    IN  IF f.panic THEN Panic
        ELSE IF f.value = None THEN Ok(None)
        ELSE Ok(Some(TimesHundred(f.value[1])))

\* (num_done() - 1) % n == 0 on usize: n = 0 panics (remainder by zero);
\* num_done() = 0 panics with overflow checks (the subtraction) and wraps to
\* usize::MAX without them.
should_print_every_items_from_zero(rec, n, overflow_checks) ==
    IF n = 0 THEN Panic ELSE Ok(UsizeRem(num_done(rec), n) = 0)
should_print_every_items(rec, n, overflow_checks) ==
    IF overflow_checks /\ UsizeSubOverflows(num_done(rec), 1) THEN Panic
    ELSE IF n = 0 THEN Panic
    ELSE Ok(UsizeRem(num_done(rec) - 1, n) = 0)

\* -------------------------------------------------- ProgressRecorderIter
\* new: count 0, the clock read once.
new(iter, now) == [iter |-> iter, count |-> 0, started_iterating |-> now]

\* generate_record: count += 1, then the record from the new count, the
\* clock read now and the iterator's size_hint as it is now. At count =
\* usize::MAX the increment panics with overflow checks and wraps to 0
\* without them.
generate_record_count_after(self, now, overflow_checks) ==
    IF overflow_checks /\ UsizeAddOverflows(self.count, 1) THEN Panic
    ELSE Ok([self |-> [self EXCEPT !.count = self.count + 1],
             rec |-> [num |-> self.count,
                      iterating_for |-> now - self.started_iterating,
                      size_hint |-> IterSizeHint(self.iter)]])
generate_record(self, now, overflow_checks) ==
    IF overflow_checks /\ UsizeAddOverflows(self.count, 1) THEN Panic
    ELSE Ok([self |-> [self EXCEPT !.count = self.count + 1],
             rec |-> [num |-> self.count + 1,
                      iterating_for |-> now - self.started_iterating,
                      size_hint |-> IterSizeHint(self.iter)]])

\* What a panic of generate_record inside next leaves behind: the wrapped
\* iterator has been pulled already (its item is lost), count is as it was.
NextPanic(pulled) == [panic |-> TRUE, value |-> [self |-> pulled, ret |-> None]]

\* next: self.iter.next().map(|a| (self.generate_record(), a)); the wrapped
\* iterator is pulled first, and a panic of generate_record is a panic of next.
next_hint_before_pull(self, now, overflow_checks) ==
    LET r == IterNext(self.iter)
        g == generate_record(self, now, overflow_checks)
    IN  IF r.item = None THEN Ok([self |-> [self EXCEPT !.iter = r.iter], ret |-> None])
        ELSE IF g.panic THEN NextPanic([self EXCEPT !.iter = r.iter])
        ELSE Ok([self |-> [g.value.self EXCEPT !.iter = r.iter],
                 ret |-> Some([rec |-> g.value.rec, item |-> r.item[1]])])
next_skip_one(self, now, overflow_checks) ==
    LET r0 == IterNext(self.iter)
        r == IterNext(r0.iter)
        pulled == [self EXCEPT !.iter = r.iter]
    IN  IF r.item = None THEN Ok([self |-> pulled, ret |-> None])
        ELSE LET g == generate_record(pulled, now, overflow_checks)
             IN  IF g.panic THEN NextPanic(pulled)
                 ELSE Ok([self |-> g.value.self,
                          ret |-> Some([rec |-> g.value.rec, item |-> r.item[1]])])
next_retry_on_none(self, now, overflow_checks) ==
    LET r0 == IterNext(self.iter)
        r == IF r0.item = None THEN IterNext(r0.iter) ELSE r0
        pulled == [self EXCEPT !.iter = r.iter]
    IN  IF r.item = None THEN Ok([self |-> pulled, ret |-> None])
        ELSE LET g == generate_record(pulled, now, overflow_checks)
             IN  IF g.panic THEN NextPanic(pulled)
                 ELSE Ok([self |-> g.value.self,
                          ret |-> Some([rec |-> g.value.rec, item |-> r.item[1]])])
next_count_on_none(self, now, overflow_checks) ==
    LET r == IterNext(self.iter)
        pulled == [self EXCEPT !.iter = r.iter]
        g == generate_record(pulled, now, overflow_checks)
    IN  IF g.panic THEN NextPanic(pulled)
        ELSE IF r.item = None THEN Ok([self |-> g.value.self, ret |-> None])
        ELSE Ok([self |-> g.value.self,
                 ret |-> Some([rec |-> g.value.rec, item |-> r.item[1]])])
next(self, now, overflow_checks) ==
    LET r == IterNext(self.iter)
        pulled == [self EXCEPT !.iter = r.iter]
    IN  IF r.item = None THEN Ok([self |-> pulled, ret |-> None])
        ELSE LET g == generate_record(pulled, now, overflow_checks)
             IN  IF g.panic THEN NextPanic(pulled)
                 ELSE Ok([self |-> g.value.self,
                          ret |-> Some([rec |-> g.value.rec, item |-> r.item[1]])])

\* size_hint of the adapter: the wrapped iterator's.
size_hint(self) == IterSizeHint(self.iter)

\* count of the adapter: self.iter.count(); no record is made. For a wrapped
\* iterator whose count returns: the adapter afterwards and the number.
count(self) ==
    LET c == IterCount(self.iter)
    IN  [self |-> [self EXCEPT !.iter = c.iter], n |-> c.n]

\* ------------------------------------------------------------------ state
VARIABLES
    self,        \* the ProgressRecorderIter: iter, count, started_iterating
    clock,       \* what now_utc() reads, in ticks
    ret,         \* what the last call of next returned
    last,        \* the last ProgressRecord handed out (Option)
    prev,        \* the one before it (Option)
    source0,     \* the iterator as it was wrapped
    yielded,     \* the items handed out so far, in order
    calls,       \* calls of next so far
    exhausted,   \* some call of next has returned None
    stdout,      \* what print! has written, message by message
    lastCall,    \* the last call on a record (printing, fraction, percent)
    printCalls,  \* how many of them there were
    status,      \* "running"; "panicked": a panic raised in the adapter's or
                 \* the record's code; "iter_panicked": one raised inside the
                 \* wrapped iterator; "diverging": a call that never returns
    counted,     \* Some of what count() returned, once it has consumed the adapter
    overflow_checks  \* the build: arithmetic overflow panics (debug) or wraps (release)

vars == <<self, clock, ret, last, prev, source0, yielded, calls, exhausted,
          stdout, lastCall, printCalls, status, counted, overflow_checks>>

NoCall == [fn |-> "none", n |-> 0, msg |-> "", num |-> 0, result |-> Ok(FALSE)]

InitWith(srcs, clocks) ==
    /\ clock \in clocks
    /\ source0 \in srcs
    /\ overflow_checks \in BOOLEAN
    /\ self = new(source0, clock)
    /\ ret = None
    /\ last = None
    /\ prev = None
    /\ yielded = <<>>
    /\ calls = 0
    /\ exhausted = FALSE
    /\ stdout = <<>>
    /\ lastCall = NoCall
    /\ printCalls = 0
    /\ status = "running"
    /\ counted = None

\* iter.progress() at any reading of the clock that leaves room to step back.
Init == InitWith(Sources, 0..1)

\* ---------------------------------------------------------------- actions
\* progressor.next()
Pull ==
    /\ status = "running"
    /\ counted = None
    /\ calls < MaxCalls
    /\ LET r == next(self, clock, overflow_checks)
       IN  IF r.panic
              THEN /\ status' = "panicked"
                   /\ self' = r.value.self
                   /\ UNCHANGED <<ret, last, prev, yielded, exhausted>>
              ELSE /\ self' = r.value.self
                   /\ ret' = r.value.ret
                   /\ IF r.value.ret = None
                         THEN /\ exhausted' = TRUE
                              /\ UNCHANGED <<last, prev, yielded>>
                         ELSE /\ last' = Some(r.value.ret[1].rec)
                              /\ prev' = last
                              /\ yielded' = Append(yielded, r.value.ret[1].item)
                              /\ UNCHANGED exhausted
                   /\ UNCHANGED status
    /\ calls' = calls + 1
    /\ UNCHANGED <<clock, source0, stdout, lastCall, printCalls, counted,
                   overflow_checks>>

\* progressor.count(): consumes the adapter.
Count ==
    /\ status = "running"
    /\ counted = None
    /\ LET outcome == IterCountOutcome(self.iter, overflow_checks)
       IN  IF outcome = "returns"
              THEN /\ self' = count(self).self
                   /\ counted' = Some(count(self).n)
                   /\ UNCHANGED status
              ELSE /\ status' = IF outcome = "panics" THEN "iter_panicked"
                                                      ELSE "diverging"
                   /\ UNCHANGED <<self, counted>>
    /\ UNCHANGED <<clock, ret, last, prev, source0, yielded, calls, exhausted,
                   stdout, lastCall, printCalls, overflow_checks>>

\* Time passes: now_utc() reads one tick more.
Tick ==
    /\ status = "running"
    /\ clock < MaxClock
    /\ clock' = clock + 1
    /\ UNCHANGED <<self, ret, last, prev, source0, yielded, calls, exhausted,
                   stdout, lastCall, printCalls, status, counted, overflow_checks>>

\* now_utc() is the wall clock (UTC time of day): the host may set it back.
SetBack ==
    /\ status = "running"
    /\ clock > 0
    /\ \E t \in 0..(clock - 1) : clock' = t
    /\ UNCHANGED <<self, ret, last, prev, source0, yielded, calls, exhausted,
                   stdout, lastCall, printCalls, status, counted, overflow_checks>>

\* state.should_print_every_items(n) on the record of the last Some.
ShouldPrintEveryItems ==
    /\ status = "running"
    /\ printCalls < MaxPrintCalls
    /\ ret # None
    /\ \E n \in 0..MaxN :
        LET rec == ret[1].rec
            r == should_print_every_items(rec, n, overflow_checks)
        IN  /\ lastCall' = [fn |-> "should_print_every_items", n |-> n, msg |-> "",
                            num |-> rec.num, result |-> r]
            /\ status' = IF r.panic THEN "panicked" ELSE status
    /\ printCalls' = printCalls + 1
    /\ UNCHANGED <<self, clock, ret, last, prev, source0, yielded, calls,
                   exhausted, stdout, counted, overflow_checks>>

\* state.print_every(n, msg) on the record of the last Some.
PrintEvery ==
    /\ status = "running"
    /\ printCalls < MaxPrintCalls
    /\ ret # None
    /\ \E n \in 0..MaxN, msg \in Msgs :
        LET rec == ret[1].rec
            r == should_print_every_items(rec, n, overflow_checks)
        IN  /\ lastCall' = [fn |-> "print_every", n |-> n, msg |-> msg,
                            num |-> rec.num, result |-> r]
            /\ status' = IF r.panic THEN "panicked" ELSE status
            /\ stdout' = IF ~r.panic /\ r.value THEN Append(stdout, msg) ELSE stdout
    /\ printCalls' = printCalls + 1
    /\ UNCHANGED <<self, clock, ret, last, prev, source0, yielded, calls, exhausted,
                   counted, overflow_checks>>

\* state.print_message() on the record of the last Some: println! of message().
PrintMessage ==
    /\ status = "running"
    /\ printCalls < MaxPrintCalls
    /\ ret # None
    /\ LET rec == ret[1].rec
       IN  /\ lastCall' = [fn |-> "print_message", n |-> 0, msg |-> message(rec),
                           num |-> rec.num, result |-> Ok(FALSE)]
           /\ stdout' = Append(stdout, message(rec) \o "\n")
    /\ printCalls' = printCalls + 1
    /\ UNCHANGED <<self, clock, ret, last, prev, source0, yielded, calls,
                   exhausted, status, counted, overflow_checks>>

\* state.fraction() on the record of the last Some.
Fraction ==
    /\ status = "running"
    /\ printCalls < MaxPrintCalls
    /\ ret # None
    /\ LET rec == ret[1].rec
           r == fraction(rec, overflow_checks)
       IN  /\ lastCall' = [fn |-> "fraction", n |-> 0, msg |-> "",
                           num |-> rec.num, result |-> r]
           /\ status' = IF r.panic THEN "panicked" ELSE status
    /\ printCalls' = printCalls + 1
    /\ UNCHANGED <<self, clock, ret, last, prev, source0, yielded, calls,
                   exhausted, stdout, counted, overflow_checks>>

\* state.percent() on the record of the last Some.
Percent ==
    /\ status = "running"
    /\ printCalls < MaxPrintCalls
    /\ ret # None
    /\ LET rec == ret[1].rec
           r == percent(rec, overflow_checks)
       IN  /\ lastCall' = [fn |-> "percent", n |-> 0, msg |-> "",
                           num |-> rec.num, result |-> r]
           /\ status' = IF r.panic THEN "panicked" ELSE status
    /\ printCalls' = printCalls + 1
    /\ UNCHANGED <<self, clock, ret, last, prev, source0, yielded, calls,
                   exhausted, stdout, counted, overflow_checks>>

Next == Pull \/ Count \/ Tick \/ SetBack

\* Iterators whose records keep remaining + done within usize, the clock
\* moving both ways.
Spec == Init /\ [][Next]_vars

\* The calls on the records handed out, the clock at rest. The items' values
\* play no part in them: the slices are of zeros; of the hand-written
\* iterators those with Iterator's default size_hint, (0, None), and those
\* with usize::MAX items left.
PrintSources ==
    { s \in Sources :
        /\ s.kind = "custom" => s.hint = <<0, None>>
        /\ s.kind = "slice" => \A i \in 1..Len(s.script) : s.script[i] = 0 }
    \cup WideCustoms

InitPrint == InitWith(PrintSources, {0})

NextPrint ==
    Pull \/ Count \/ ShouldPrintEveryItems \/ PrintEvery \/ PrintMessage
        \/ Fraction \/ Percent

SpecPrint == InitPrint /\ [][NextPrint]_vars

\* ------------------------------------------------- the wrapped iterator alone
\* The iterator after k calls of its next, and the items those calls returned.
RECURSIVE IterAfter(_, _)
IterAfter(it, k) == IF k = 0 THEN it ELSE IterAfter(IterNext(it).iter, k - 1)

RECURSIVE ItemsOf(_, _)
ItemsOf(it, k) ==
    IF k = 0 THEN <<>>
    ELSE LET r == IterNext(it) IN r.item \o ItemsOf(r.iter, k - 1)

\* A fused iterator: after a None its next returns None for good.
Fused(it) ==
    \/ it.kind \in {"slice", "range_from"}
    \/ \A i, j \in 1..Len(it.script) : (i < j /\ it.script[i] = None) => it.script[j] = None

\* The whole seconds of a duration of d ticks, from what "whole seconds, the
\* rest cut off" means.
WholeSeconds(d) ==
    CHOOSE s \in -(MaxClock + 1)..(MaxClock + 1) :
        /\ d >= 0 => (s >= 0 /\ s * TicksPerSec <= d /\ d < (s + 1) * TicksPerSec)
        /\ d < 0 => (s <= 0 /\ d <= s * TicksPerSec /\ (s - 1) * TicksPerSec < d)

\* f is an f32 with a normalised mantissa.
IsF32(f) == f.kind = "fin" /\ MantissaMin <= f.m /\ f.m < MantissaLim

Abs(x) == IF x >= 0 THEN x ELSE -x

\* f > 0 is within half a unit of its last place of a / b (integers a, b > 0,
\* a / b below 2^23): f is a / b rounded to f32.
NearestToQuotient(f, a, b) ==
    /\ IsF32(f) /\ f.sign = 1 /\ f.e < 0
    /\ 2 * Abs(f.m * b - a * Pow2(-f.e)) <= b

\* p > 0 is within half a unit of its last place of 100 * f: p is the f32
\* product of f and 100.
NearestToHundredTimes(p, f) ==
    /\ IsF32(p) /\ p.sign = 1 /\ p.e >= f.e
    /\ 2 * Abs(p.m * Pow2(p.e - f.e) - 100 * f.m) <= Pow2(p.e - f.e)

\* ----------------------------------------------------------------- claims
\* C1: the record of the n-th successful pull has num_done() = n: the first
\* record counts 1 and every later one counts one more than the record before.
C1_CountIsPullNumber ==
    /\ last # None =>
        /\ num_done(last[1]) = Len(yielded)
        /\ prev = None => num_done(last[1]) = 1
        /\ prev # None => num_done(last[1]) = num_done(prev[1]) + 1
    /\ ret # None => Some(ret[1].rec) = last

C1_Witness ==
    /\ exhausted
    /\ last # None /\ prev # None
    /\ num_done(prev[1]) = 2
    /\ num_done(last[1]) = 3

\* C2: the items the adapter hands out are the items the wrapped iterator
\* yields when pulled directly, in order, and every call of next pulls the
\* wrapped iterator exactly once.
C2_SameItemsOnePullPerCall ==
    /\ counted = None =>
        /\ self.iter.pulled = calls
        /\ self.iter = IterAfter(source0, calls)
    /\ yielded = ItemsOf(source0, calls)
    /\ ret # None => ret[1].item = yielded[Len(yielded)]

C2_Witness ==
    /\ source0.kind = "slice"
    /\ calls = 3
    /\ yielded = <<1, 0, 1>>

\* C3 as claimed: for every wrapped iterator, once a pull has returned None
\* every later pull returns None, nothing more is handed out and count stays.
C3_ExhaustionSticky ==
    [][exhausted =>
        (ret' = None /\ self'.count = self.count /\ yielded' = yielded /\ last' = last)]_vars

\* C3 as amended: a pull of the adapter returns None exactly when that pull
\* of the wrapped iterator does, and then leaves count and the items alone; so
\* for a fused wrapped iterator, once a pull has returned None every later
\* pull returns None, nothing more is handed out and count stays.
C3_ExhaustionInherited ==
    [][/\ calls' # calls =>
            /\ (ret' = None) <=> (IterNext(self.iter).item = None)
            /\ ret' = None => (self'.count = self.count /\ yielded' = yielded /\ last' = last)
       /\ (exhausted /\ Fused(source0)) =>
            (ret' = None /\ self'.count = self.count /\ yielded' = yielded /\ last' = last)
      ]_vars

C3_Witness ==
    /\ Fused(source0)
    /\ source0.kind = "slice"
    /\ exhausted
    /\ Len(yielded) = 2
    /\ calls = 4
    /\ ret = None
    /\ self.count = 2

\* C4: for a slice of k items the n-th record holds the size_hint read after
\* the n-th item was taken, (k-n, Some(k-n)); fraction() is Some of n/k as an
\* f32 (the quotient rounded once) and percent() is Some of 100 times that
\* f32, rounded once more: 3 of 5 gives 60.000004, not 60.
C4_HintReadAfterPull ==
    (last # None /\ source0.kind = "slice") =>
        LET rec == last[1]
            n == num_done(rec)
            k == Len(source0.script)
            f == fraction(rec, overflow_checks)
            p == percent(rec, overflow_checks)
        IN  /\ 1 <= n /\ n <= k
            /\ rec.size_hint = <<k - n, Some(k - n)>>
            /\ ~f.panic /\ f.value # None /\ NearestToQuotient(f.value[1], n, k)
            /\ ~p.panic /\ p.value # None
            /\ NearestToHundredTimes(p.value[1], f.value[1])
            /\ (k = 5 /\ n = 3) => p = Ok(Some(F32(1, 15728641, -18)))

C4_Witness ==
    /\ source0.kind = "slice"
    /\ Len(source0.script) = 5
    /\ last # None /\ prev # None
    /\ fraction(prev[1], overflow_checks) = Ok(Some(F32(1, 13421773, -26)))
    /\ percent(prev[1], overflow_checks) = Ok(Some(F32(1, 10485760, -19)))
    /\ fraction(last[1], overflow_checks) = Ok(Some(F32(1, 13421773, -25)))
    /\ percent(last[1], overflow_checks) = Ok(Some(F32(1, 10485760, -18)))

C6_PrintEveryNth ==
    [][(printCalls' # printCalls /\ lastCall'.fn # "print_message" /\ lastCall'.n > 0) =>
        LET c == lastCall'
            due == \E q \in 0..MaxCalls : c.num = q * c.n + 1
        IN  /\ c.num = Len(yielded)
            /\ ~c.result.panic
            /\ c.result.value <=> due
            /\ c.num = 1 => c.result.value
            /\ c.fn = "print_every" =>
                stdout' = IF due THEN Append(stdout, c.msg) ELSE stdout
            /\ c.fn = "should_print_every_items" => stdout' = stdout
      ]_vars

C6_Witness ==
    /\ lastCall.fn = "print_every"
    /\ lastCall.n = 2
    /\ lastCall.num = 3
    /\ lastCall.msg = "tock"
    /\ stdout = <<"tock">>
    /\ printCalls = 2

\* C7: of two records of one adapter the later one has the greater or equal
\* duration since the start.
C7_ElapsedNonDecreasing ==
    (prev # None /\ last # None) =>
        duration_since_start(prev[1]) <= duration_since_start(last[1])

\* C8: rate() is num_done() over the whole seconds of the duration, the rest
\* of a second cut off, as an f32; with 0 whole seconds it is +infinity; it is
\* never 0 and never NaN.
C8_RatePerWholeSecond ==
    \A o \in {prev, last} :
        o # None =>
            LET rec == o[1]
                s == WholeSeconds(duration_since_start(rec))
                r == rate(rec)
            IN  /\ num_done(rec) >= 1
                /\ (s = 0) <=> (r = Inf)
                /\ s # 0 => /\ r.kind = "fin"
                            /\ r.sign = (IF s > 0 THEN 1 ELSE -1)
                            /\ NearestToQuotient([r EXCEPT !.sign = 1],
                                                 num_done(rec), Abs(s))

C8_Witness ==
    /\ last # None /\ prev # None
    /\ num_done(prev[1]) = 3
    /\ duration_since_start(prev[1]) = 3
    /\ rate(prev[1]) = F32(1, 12582912, -22)
    /\ num_done(last[1]) = 4
    /\ duration_since_start(last[1]) = 4
    /\ rate(last[1]) = F32(1, 8388608, -22)

\* C9: with n = 0 should_print_every_items panics and print_every(0, msg)
\* panics without writing; with n > 0 neither panics on any record handed
\* out, every record counting at least 1; and that is the only panic raised
\* in the adapter's and the record's code: whenever one is raised, it is by
\* one of these two calls with n = 0.
C9_OnlyZeroPeriodFails ==
    [][/\ last' # None => num_done(last'[1]) >= 1
       /\ (printCalls' # printCalls
             /\ lastCall'.fn \in {"should_print_every_items", "print_every"}) =>
            LET c == lastCall'
            IN  /\ c.result.panic <=> (c.n = 0)
                /\ c.n = 0 => (status' = "panicked" /\ stdout' = stdout)
                /\ c.n > 0 => status' = "running"
       /\ (status = "running" /\ status' = "panicked") =>
            /\ printCalls' # printCalls
            /\ lastCall'.fn \in {"should_print_every_items", "print_every"}
            /\ lastCall'.n = 0
      ]_vars

\* The first record of an iterator with usize::MAX items left, a build with
\* overflow checks: fraction() has panicked on remaining + done.
C9_Witness ==
    /\ overflow_checks
    /\ status = "panicked"
    /\ lastCall.fn = "fraction"
    /\ lastCall.num = 1
    /\ lastCall.result = Panic
    /\ last # None
    /\ last[1].size_hint = <<USIZE_MAX, Some(USIZE_MAX)>>
    /\ is_size_known(last[1])

\* C10: a pull on which the wrapped iterator returns None returns None, makes
\* no record and leaves count and started_iterating alone; count goes up by
\* one on a pull that returns an item, so count is the number of items
\* handed out so far.
C10_CountOnlyOnSome ==
    [][/\ self'.started_iterating = self.started_iterating
       /\ self'.count = Len(yielded')
       /\ (calls' # calls /\ IterNext(self.iter).item = None) =>
            /\ ret' = None
            /\ self'.count = self.count
            /\ last' = last /\ prev' = prev /\ yielded' = yielded
       /\ (calls' # calls /\ IterNext(self.iter).item # None) =>
            /\ ret' # None
            /\ self'.count = self.count + 1
            /\ Len(yielded') = Len(yielded) + 1
       /\ calls' = calls => self'.count = self.count
      ]_vars

C10_Witness ==
    /\ source0.kind = "custom"
    /\ ~Fused(source0)
    /\ calls = 3
    /\ ret # None
    /\ self.count = 2
    /\ Len(yielded) = 2

====
